---- MODULE Spec2Model ----
(***************************************************************************)
(* Model of the FunPay Cardinal plugin "Auto Response Order"               *)
(* (src/auto_response_order.py): the settings object and its file, the     *)
(* dedup gate of message_hook, the background worker it starts, the        *)
(* Telegram settings handlers, and the template renderer process_text.     *)
(*                                                                         *)
(* Text is modelled as a sequence of one-character strings, so that the    *)
(* renderer is computed character by character as the code computes it.    *)
(* Python's None is the value None below; an order identifier is the       *)
(* number whose decimal digits form the identifier string.                 *)
(***************************************************************************)
EXTENDS Integers, Sequences, FiniteSets, TLC

\* ------------------------------------------------------------------------
\* Bounds of the model
\* ------------------------------------------------------------------------
\* number of message_hook invocations in a run of the dedup gate
MaxEvents == 2
\* number of settings-handler invocations (switch, edit_text_finish) in one run
MaxSettingsOps == 1
\* number of distinct order identifiers admitted in the retention run
MaxInserts == 600
\* number of message_hook invocations in a run of the workers
MaxWorkerEvents == 1
\* number of process restarts in a run with restarts
MaxRestarts == 1

\* ------------------------------------------------------------------------
\* Program constants
\* ------------------------------------------------------------------------
\* self.processed_orders[-500:]
KeepLast == 500
\* for attempt in range(3)
MaxAttempts == 3

\* Python's None, distinct from every text
None == <<"None">>

\* ------------------------------------------------------------------------
\* Text helpers (str methods used by the code)
\* ------------------------------------------------------------------------
Digit(d) == <<"0", "1", "2", "3", "4", "5", "6", "7", "8", "9">>[d + 1]

\* str(n) for a natural number n
RECURSIVE Str(_)
Str(n) == IF n < 10 THEN <<Digit(n)>> ELSE Str(n \div 10) \o <<Digit(n % 10)>>

\* "%02d" % n, as strftime's %d, %m, %H, %M, %S produce it
Pad2(n) == IF n < 10 THEN <<"0">> \o Str(n) ELSE Str(n)

IsSpace(c) == c \in {" ", "\t", "\n"}

RECURSIVE lstrip(_)
lstrip(s) == IF s # <<>> /\ IsSpace(Head(s)) THEN lstrip(Tail(s)) ELSE s

RECURSIVE rstrip(_)
rstrip(s) ==
    IF s # <<>> /\ IsSpace(s[Len(s)]) THEN rstrip(SubSeq(s, 1, Len(s) - 1)) ELSE s

\* str.strip()
strip(s) == rstrip(lstrip(s))

\* "not raw_text or not raw_text.strip()"
IsBlank(s) == s = <<>> \/ strip(s) = <<>>

\* s[i:].startswith(key)
StartsAt(s, i, key) == i + Len(key) - 1 <= Len(s) /\ SubSeq(s, i, i + Len(key) - 1) = key

\* str.replace(key, value): every non-overlapping occurrence, left to right;
\* the inserted value is not rescanned. rest[i] is s[i:].replace(key, value)
replace(s, key, value) ==
    LET rest[i \in 1..(Len(s) + 1)] ==
            IF i + Len(key) - 1 > Len(s) THEN SubSeq(s, i, Len(s))
            ELSE IF StartsAt(s, i, key) THEN value \o rest[i + Len(key)]
            ELSE <<s[i]>> \o rest[i + 1]
    IN  rest[1]

\* str.split("|"): the parts between the separators, empty parts included
RECURSIVE split(_, _)
split(s, sep) ==
    IF \A i \in 1..Len(s) : s[i] # sep THEN <<s>>
    ELSE LET i == CHOOSE k \in 1..Len(s) :
                      s[k] = sep /\ \A j \in 1..(k - 1) : s[j] # sep
         IN  <<SubSeq(s, 1, i - 1)>> \o split(SubSeq(s, i + 1, Len(s)), sep)

\* list[:n] in place of list[-n:]
LastN_KeepsFirst(list, n) == IF Len(list) <= n THEN list ELSE SubSeq(list, 1, n)

\* last n elements of a list: list[-n:]
LastN(list, n) ==
    IF Len(list) <= n THEN list ELSE SubSeq(list, Len(list) - n + 1, Len(list))

Range(f) == {f[i] : i \in DOMAIN f}

\* ------------------------------------------------------------------------
\* Template renderer
\* ------------------------------------------------------------------------
K_date == <<"$", "d", "a", "t", "e">>
K_date_text == <<"$", "d", "a", "t", "e", "_", "t", "e", "x", "t">>
K_time == <<"$", "t", "i", "m", "e">>
K_full_time == <<"$", "f", "u", "l", "l", "_", "t", "i", "m", "e">>
K_username == <<"$", "u", "s", "e", "r", "n", "a", "m", "e">>
K_order_id == <<"$", "o", "r", "d", "e", "r", "_", "i", "d">>
K_order_link == <<"$", "o", "r", "d", "e", "r", "_", "l", "i", "n", "k">>
K_order_title == <<"$", "o", "r", "d", "e", "r", "_", "t", "i", "t", "l", "e">>
K_order_desc == <<"$", "o", "r", "d", "e", "r", "_", "d", "e", "s", "c">>
K_order_params == <<"$", "o", "r", "d", "e", "r", "_", "p", "a", "r", "a", "m", "s">>
K_order_desc_or_params ==
    <<"$", "o", "r", "d", "e", "r", "_", "d", "e", "s", "c", "_", "o", "r", "_",
      "p", "a", "r", "a", "m", "s">>
K_buyer == <<"$", "b", "u", "y", "e", "r">>
K_seller == <<"$", "s", "e", "l", "l", "e", "r">>
K_game == <<"$", "g", "a", "m", "e">>
K_category == <<"$", "c", "a", "t", "e", "g", "o", "r", "y">>
K_category_full == <<"$", "c", "a", "t", "e", "g", "o", "r", "y", "_", "f", "u", "l", "l">>
K_price == <<"$", "p", "r", "i", "c", "e">>
K_currency == <<"$", "c", "u", "r", "r", "e", "n", "c", "y">>
K_amount == <<"$", "a", "m", "o", "u", "n", "t">>

\* _MONTHS: the genitive month names, transliterated
_MONTHS ==
    <<"yanvarya", "fevralya", "marta", "aprelya", "maya", "iyunya", "iyulya",
      "avgusta", "sentyabrya", "oktyabrya", "noyabrya", "dekabrya">>

\* "https://funpay.com/orders/" and the closing "/" of $order_link
LinkPrefix ==
    <<"h", "t", "t", "p", "s", ":", "/", "/", "f", "u", "n", "p", "a", "y", ".",
      "c", "o", "m", "/", "o", "r", "d", "e", "r", "s", "/">>

\* _safe_attr(obj, attr, default): the default for None, str(val) otherwise
_safe_attr(val, default) == IF val = None THEN default ELSE val

\* "x or y" on texts and None
Or(x, y) == IF x = None \/ x = <<>> THEN y ELSE x

\* subcat.name raises AttributeError when the subcategory object has no name
\* (line 101); every other access of _build_replacements is guarded
RaisesOnBuild(order) == order.subcategory.kind = "object"

\* _build_replacements: the (key, value) pairs in the dict's insertion order
_build_replacements(username, order_id, order, now) ==
    LET subcat == order.subcategory
        game_name == IF subcat.kind = "SubCategory" THEN subcat.game ELSE <<>>
        subcat_name == IF subcat.kind = "SubCategory" THEN subcat.name ELSE <<>>
        subcat_fullname == IF subcat.kind = "SubCategory" THEN subcat.fullname ELSE <<>>
        lot_params_text == Or(order.lot_params_text, <<>>)
        currency_str == order.currency
    IN  << <<K_date, Pad2(now.day) \o <<".">> \o Pad2(now.month) \o <<".">> \o Str(now.year)>>,
           <<K_date_text, Str(now.day) \o <<" ">> \o <<_MONTHS[now.month]>> >>,
           <<K_time, Pad2(now.hour) \o <<":">> \o Pad2(now.minute)>>,
           <<K_full_time,
             Pad2(now.hour) \o <<":">> \o Pad2(now.minute) \o <<":">> \o Pad2(now.second)>>,
           <<K_username, username>>,
           <<K_order_id, order_id>>,
           <<K_order_link, LinkPrefix \o order_id \o <<"/">> >>,
           <<K_order_title, _safe_attr(order.short_description, <<>>)>>,
           <<K_order_desc, _safe_attr(order.full_description, <<>>)>>,
           <<K_order_params, lot_params_text>>,
           <<K_order_desc_or_params,
             Or(_safe_attr(order.full_description, <<>>), lot_params_text)>>,
           <<K_buyer, _safe_attr(order.buyer_username, <<>>)>>,
           <<K_seller, _safe_attr(order.seller_username, <<>>)>>,
           <<K_game, game_name>>,
           <<K_category, strip(subcat_name \o <<" ">> \o game_name)>>,
           <<K_category_full, subcat_fullname>>,
           <<K_price, IF order.sum # None THEN order.sum ELSE <<>> >>,
           <<K_currency, currency_str>>,
           <<K_amount, Str(order.amount)>> >>

\* position of the "}" closing the group that opens at s[i], 0 when
\* r"\{([^{}]+)}" does not match at position i
GroupEnd(s, i) ==
    IF s[i] # "{" THEN 0
    ELSE LET braces == {k \in (i + 1)..Len(s) : s[k] \in {"{", "}"}}
         IN  IF braces = {} THEN 0
             ELSE LET k == CHOOSE b \in braces : \A c \in braces : b <= c
                  IN  IF s[k] = "}" /\ k > i + 1 THEN k ELSE 0

\* the first option of a group's content, in place of a random one
spin_First(content) == {Head(split(content, "|"))}

\* spin(match): the values random.choice can return for a group's content
spin(content) == Range(split(content, "|"))

\* re.sub(r"\{([^{}]+)}", spin, raw_text): every text the substitution can
\* yield; matches are found left to right and a replacement is not rescanned.
\* rest[i] is the set of texts for s[i:]
resub(s) ==
    LET rest[i \in 1..(Len(s) + 1)] ==
            IF i > Len(s) THEN {<<>>}
            ELSE IF GroupEnd(s, i) > 0
            THEN {o \o r : o \in spin(SubSeq(s, i + 1, GroupEnd(s, i) - 1)),
                           r \in rest[GroupEnd(s, i) + 1]}
            ELSE {<<s[i]>> \o r : r \in rest[i + 1]}
    IN  rest[1]

\* for key, value in replacements.items(): text = text.replace(key, value)
\* (each intermediate text is bound to a variable, so that it is computed once)
RECURSIVE replaceAll(_, _)
replaceAll(text, replacements) ==
    IF replacements = <<>> THEN text
    ELSE CHOOSE result \in
             {replaceAll(t, Tail(replacements)) :
                 t \in {replace(text, Head(replacements)[1], Head(replacements)[2])}} : TRUE

\* the two steps in the other order: placeholders first, then the groups
process_text_SubstFirst(raw_text, username, order_id, order, now) ==
    UNION {resub(t) :
             t \in {replaceAll(raw_text,
                               _build_replacements(username, order_id, order, now))}}

\* process_text: the set of texts it can return (one per outcome of random.choice)
process_text(raw_text, username, order_id, order, now) ==
    {replaceAll(t, replacements) :
        t \in {x \in resub(raw_text) : TRUE},
        replacements \in {_build_replacements(username, order_id, order, now)}}

\* ------------------------------------------------------------------------
\* Settings and the settings file
\* ------------------------------------------------------------------------
\* Settings.__init__: message_text is the default template, abridged to one
\* line per placeholder it uses
DefaultText ==
    <<"H", "i", " ">> \o K_username \o <<"\n", "#">> \o K_order_id \o <<"\n">>
        \o K_order_title \o <<"\n">> \o K_price \o <<" ">> \o K_currency

Defaults ==
    [enabled |-> FALSE, watermark |-> FALSE, message_text |-> DefaultText,
     processed_orders |-> <<>>]

\* the settings file: absent, empty (just truncated by open(..., "w")), the
\* JSON written by json.dump, or garbage of some length (no valid JSON)
NoFile == [kind |-> "missing"]
EmptyFile == [kind |-> "empty"]
JsonFile(data) == [kind |-> "json", data |-> data]

\* the identifiers a reader of the file finds in "processed_orders"
Stored(f) == IF f.kind = "json" THEN Range(f.data.processed_orders) ELSE {}

\* Settings.load: nothing is assigned when the file is absent or json.load raises
load(self, f) == IF f.kind = "json" THEN f.data ELSE self

\* number of characters json.dump(self.__dict__, indent=4) writes, up to a
\* constant: what decides whether a shorter write leaves a tail of older content
\* one line per identifier: indentation, quotes, comma, newline and its digits
SumLen(ids) ==
    12 * Len(ids)
        + Cardinality({p \in (DOMAIN ids) \X (0..6) : p[2] = 0 \/ ids[p[1]] >= 10 ^ p[2]})

JsonLen(data) ==
    (IF data.enabled THEN 4 ELSE 5) + (IF data.watermark THEN 4 ELSE 5)
        + Len(data.message_text) + Cardinality({i \in DOMAIN data.message_text :
                                                    data.message_text[i] = "\n"})
        + SumLen(data.processed_orders)

\* length of the file's content
FileLen(f) ==
    IF f.kind = "json" THEN JsonLen(f.data)
    ELSE IF f.kind = "garbage" THEN f.len
    ELSE 0

\* the file after a writer that opened it earlier flushes buf at offset 0
\* without truncating: content longer than buf leaves its tail behind
Flush(f, buf) ==
    IF FileLen(f) <= JsonLen(buf) THEN JsonFile(buf)
    ELSE [kind |-> "garbage", len |-> FileLen(f)]

\* ------------------------------------------------------------------------
\* Inputs
\* ------------------------------------------------------------------------
\* threads that run message_hook, and the Telegram handler thread
Hooks == {1, 2}
TG == 0
Threads == Hooks \cup {TG}

\* order identifiers found in event texts
OrderIds == {1, 2}

\* templates and texts typed into the settings menu
T_title == K_order_title
T_space == <<" ">>
T_dash == <<" ", "-">>

ChatNames == {None, <<"A", "l">>}

\* NewMessageEvent: message type, i_am_buyer, the matches of _RE.ORDER_ID in
\* str(event.message) (each "#" + identifier), chat_name
MessageEvents ==
    [type : {"ORDER_PURCHASED", "NON_SYSTEM"}, i_am_buyer : BOOLEAN,
     order_ids : {<<>>} \cup {<<x>> : x \in OrderIds}, chat_name : ChatNames]

NoSubcategory == [kind |-> "None"]

Order(short_description, subcategory) ==
    [kind |-> "Order", subcategory |-> subcategory, lot_params_text |-> None,
     currency |-> <<"R">>, short_description |-> short_description,
     full_description |-> None, buyer_username |-> <<"B", "o">>,
     seller_username |-> <<"S">>, sum |-> <<"5">>, amount |-> 1]

\* get_order returned None
NoOrder == [kind |-> "None"]

\* orders get_order can return: with a title, without one, and with a
\* subcategory object that has no name attribute
OrderObjs ==
    {Order(<<"a">>, NoSubcategory), Order(None, NoSubcategory),
     Order(<<"a">>, [kind |-> "object"])}

\* datetime.datetime.now()
Nows == {[day |-> 4, month |-> 11, year |-> 2026, hour |-> 9, minute |-> 5, second |-> 7]}

\* ------------------------------------------------------------------------
\* State
\* ------------------------------------------------------------------------
VARIABLES
    SETTINGS,   \* the Settings object: enabled, watermark, message_text, processed_orders
    file,       \* content of _SETTINGS_FILE
    lock,       \* _lock: 0 when free, else the thread holding it
    thr,        \* per thread: position, locals of message_hook and of Settings.save
    workers,    \* the worker threads started so far, in start order
    nEvents,    \* message_hook invocations so far
    nOps,       \* settings-handler invocations so far
    nRestarts,  \* process restarts so far
    persisted   \* history: the identifiers some completed write put into the file

vars == <<SETTINGS, file, lock, thr, workers, nEvents, nOps, nRestarts, persisted>>

IdleThread ==
    [pc |-> "idle", order_id |-> 0, chat_name |-> None, stale |-> FALSE,
     tmp |-> <<>>, buf |-> Defaults]

InitWith(f) ==
    /\ file = f
    /\ SETTINGS = load(Defaults, f)
    /\ lock = 0
    /\ thr = [t \in Threads |-> IdleThread]
    /\ workers = <<>>
    /\ nEvents = 0
    /\ nOps = 0
    /\ nRestarts = 0
    /\ persisted = Stored(f)

\* first start (no file), or a start with auto-reply switched on and order 2
\* answered in an earlier run
Init ==
    \E f \in {NoFile, JsonFile([Defaults EXCEPT !.enabled = TRUE,
                                                 !.processed_orders = <<2>>])} :
        InitWith(f)

\* ------------------------------------------------------------------------
\* Settings.save, run by thread t (lines 63-69)
\* ------------------------------------------------------------------------
\* self.processed_orders[-500:] : the value of the right-hand side
SaveSlice(t) ==
    /\ thr[t].pc = "save_slice"
    /\ thr' = [thr EXCEPT ![t].pc = "save_store",
                          ![t].tmp = LastN(SETTINGS.processed_orders, KeepLast)]
    /\ UNCHANGED <<SETTINGS, file, lock, workers, nEvents, nOps, nRestarts, persisted>>

\* self.processed_orders = ... : the attribute now names the new list; a thread
\* that already loaded the old list for its append holds a stale reference
SaveStore(t) ==
    /\ thr[t].pc = "save_store"
    /\ SETTINGS' = [SETTINGS EXCEPT !.processed_orders = thr[t].tmp]
    /\ thr' = [u \in Threads |->
                 IF u = t THEN [thr[u] EXCEPT !.pc = "save_open"]
                 ELSE IF thr[u].pc = "append" THEN [thr[u] EXCEPT !.stale = TRUE]
                 ELSE thr[u]]
    /\ UNCHANGED <<file, lock, workers, nEvents, nOps, nRestarts, persisted>>

\* open(_SETTINGS_FILE, "w") truncates the file
SaveOpen(t) ==
    /\ thr[t].pc = "save_open"
    /\ file' = EmptyFile
    /\ thr' = [thr EXCEPT ![t].pc = "save_dump"]
    /\ UNCHANGED <<SETTINGS, lock, workers, nEvents, nOps, nRestarts, persisted>>

\* json.dump(self.__dict__, f): the object is serialised into f's buffer
SaveDump(t) ==
    /\ thr[t].pc = "save_dump"
    /\ thr' = [thr EXCEPT ![t].pc = "save_close", ![t].buf = SETTINGS]
    /\ UNCHANGED <<SETTINGS, file, lock, workers, nEvents, nOps, nRestarts, persisted>>

\* leaving the with block closes f and flushes its buffer to the file; the
\* settings handlers only update the menu afterwards and return
SaveClose(t) ==
    /\ thr[t].pc = "save_close"
    /\ file' = Flush(file, thr[t].buf)
    /\ persisted' = persisted \cup Stored(file')
    /\ thr' = [thr EXCEPT ![t].pc = IF t = TG THEN "idle" ELSE "saved"]
    /\ UNCHANGED <<SETTINGS, lock, workers, nEvents, nOps, nRestarts>>

\* ------------------------------------------------------------------------
\* message_hook, run by thread h (lines 143-211)
\* ------------------------------------------------------------------------
\* "#" + identifier -> identifier: order_ids[0][1:]
FirstOrderId(order_ids) == Head(order_ids)

\* the early returns without the i_am_buyer test of lines 150-151
Rejected_BuyerPasses(event) ==
    \/ ~SETTINGS.enabled
    \/ event.type # "ORDER_PURCHASED"
    \/ event.order_ids = <<>>

\* lines 144-156: the four early returns
Rejected(event) ==
    \/ ~SETTINGS.enabled
    \/ event.type # "ORDER_PURCHASED"
    \/ event.i_am_buyer
    \/ event.order_ids = <<>>

HookBegin(h, event) ==
    /\ thr[h].pc = "idle"
    /\ thr' = IF Rejected(event) THEN thr
              ELSE [thr EXCEPT ![h].pc = "lock",
                               ![h].order_id = FirstOrderId(event.order_ids),
                               ![h].chat_name = event.chat_name]
    /\ nEvents' = nEvents + 1
    /\ UNCHANGED <<SETTINGS, file, lock, workers, nOps, nRestarts, persisted>>

\* with _lock:
HookAcquire(h) ==
    /\ thr[h].pc = "lock"
    /\ lock = 0
    /\ lock' = h
    /\ thr' = [thr EXCEPT ![h].pc = "check"]
    /\ UNCHANGED <<SETTINGS, file, workers, nEvents, nOps, nRestarts, persisted>>

\* if order_id in SETTINGS.processed_orders: return   (the with block releases
\* the lock); otherwise SETTINGS.processed_orders is loaded for the append
AlreadyProcessed(order_id) == order_id \in Range(SETTINGS.processed_orders)

HookCheck(h) ==
    /\ thr[h].pc = "check"
    /\ IF AlreadyProcessed(thr[h].order_id)
       THEN /\ lock' = 0
            /\ thr' = [thr EXCEPT ![h] = IdleThread]
       ELSE /\ lock' = lock
            /\ thr' = [thr EXCEPT ![h].pc = "append", ![h].stale = FALSE]
    /\ UNCHANGED <<SETTINGS, file, workers, nEvents, nOps, nRestarts, persisted>>

\* .append(order_id) on the list loaded by HookCheck: the append is lost when
\* SETTINGS.processed_orders was rebound to another list in between
HookAppend(h) ==
    /\ thr[h].pc = "append"
    /\ SETTINGS' = IF thr[h].stale THEN SETTINGS
                   ELSE [SETTINGS EXCEPT
                           !.processed_orders = Append(@, thr[h].order_id)]
    /\ thr' = [thr EXCEPT ![h].pc = "save_slice"]
    /\ UNCHANGED <<file, lock, workers, nEvents, nOps, nRestarts, persisted>>

\* end of the with block, after SETTINGS.save() returned
HookRelease(h) ==
    /\ thr[h].pc = "saved"
    /\ lock' = 0
    /\ thr' = [thr EXCEPT ![h].pc = "read_text"]
    /\ UNCHANGED <<SETTINGS, file, workers, nEvents, nOps, nRestarts, persisted>>

\* the worker's closure (order_id, raw_text, chat_name) and its locals; gets,
\* sleeps and sends count its get_order, _time.sleep and send_message calls
NewWorker(order_id, raw_text, chat_name) ==
    [pc |-> "fetch", order_id |-> order_id, raw_text |-> raw_text,
     chat_name |-> chat_name, attempt |-> 0, order |-> NoOrder,
     gets |-> 0, sleeps |-> 0, sends |-> 0, text |-> None, watermark |-> FALSE,
     log |-> {}]

\* lines 164-211: read the template, return when it is blank, else start the worker
HookStart(h) ==
    /\ thr[h].pc = "read_text"
    /\ LET raw_text == SETTINGS.message_text
       IN  workers' = IF IsBlank(raw_text) THEN workers
                      ELSE Append(workers,
                                  NewWorker(thr[h].order_id, raw_text, thr[h].chat_name))
    /\ thr' = [thr EXCEPT ![h] = IdleThread]
    /\ UNCHANGED <<SETTINGS, file, lock, nEvents, nOps, nRestarts, persisted>>

\* ------------------------------------------------------------------------
\* worker, the thread started by message_hook (lines 171-209)
\* ------------------------------------------------------------------------
\* what one cardinal.account.get_order(order_id) call can do
Raised == [kind |-> "raise"]

GetOrderOutcomes == {Raised, NoOrder} \cup OrderObjs

\* what cardinal.send_message can do: raise, or return a falsy or truthy result
SendOutcomes == {"raise", "falsy", "truthy"}

\* range(3): the loop goes on to the next attempt or falls out of the loop
NextAttempt(w) ==
    IF w.attempt + 1 < MaxAttempts
    THEN [w EXCEPT !.attempt = @ + 1, !.pc = "fetch"]
    ELSE [w EXCEPT !.attempt = @ + 1, !.pc = "render"]

\* the loop without its break: a returned order does not end the retrieval
GetOrderStep_NoBreak(w, outcome) ==
    IF outcome.kind = "raise"
    THEN [w EXCEPT !.gets = @ + 1, !.pc = "sleep", !.log = @ \cup {"warning: attempt"}]
    ELSE IF outcome.kind = "None"
    THEN NextAttempt([w EXCEPT !.gets = @ + 1, !.order = NoOrder])
    ELSE NextAttempt([w EXCEPT !.gets = @ + 1, !.order = outcome])

\* lines 177-183, one pass of the loop body up to the sleep: the call raises
\* (warning, then sleep), returns a falsy value (next attempt at once), or
\* returns an order (break)
GetOrderStep(w, outcome) ==
    IF outcome.kind = "raise"
    THEN [w EXCEPT !.gets = @ + 1, !.pc = "sleep", !.log = @ \cup {"warning: attempt"}]
    ELSE IF outcome.kind = "None"
    THEN NextAttempt([w EXCEPT !.gets = @ + 1, !.order = NoOrder])
    ELSE [w EXCEPT !.gets = @ + 1, !.order = outcome, !.pc = "render"]

WorkerGetOrder(i, outcome) ==
    /\ workers[i].pc = "fetch"
    /\ workers' = [workers EXCEPT ![i] = GetOrderStep(@, outcome)]
    /\ UNCHANGED <<SETTINGS, file, lock, thr, nEvents, nOps, nRestarts, persisted>>

\* _time.sleep(2) in the except branch, then the next pass of the loop
SleepStep(w) == NextAttempt([w EXCEPT !.sleeps = @ + 1])

WorkerSleep(i) ==
    /\ workers[i].pc = "sleep"
    /\ workers' = [workers EXCEPT ![i] = SleepStep(@)]
    /\ UNCHANGED <<SETTINGS, file, lock, thr, nEvents, nOps, nRestarts, persisted>>

\* the buyer's name even when the chat has a name
Username_BuyerFirst(chat_name, order) ==
    _safe_attr(order.buyer_username, <<"B", "u", "y", "e", "r">>)

\* chat_name or _safe_attr(order, "buyer_username", <default name>)
Username(chat_name, order) ==
    Or(chat_name, _safe_attr(order.buyer_username, <<"B", "u", "y", "e", "r">>))

\* the texts rendered from the template as it is at the time of rendering
Rendered_CurrentTemplate(w, now) ==
    process_text(SETTINGS.message_text, Username(w.chat_name, w.order), Str(w.order_id),
                 w.order, now)

\* the texts line 190 can produce for worker w
Rendered(w, now) ==
    process_text(w.raw_text, Username(w.chat_name, w.order), Str(w.order_id), w.order, now)

\* the render step without the blank-text return of lines 192-193
RenderStep_SendsBlank(w, text) ==
    IF w.order = NoOrder
    THEN [w EXCEPT !.pc = "done", !.log = @ \cup {"error: no order"}]
    ELSE IF RaisesOnBuild(w.order)
    THEN [w EXCEPT !.pc = "done", !.log = @ \cup {"error: exception"}]
    ELSE [w EXCEPT !.pc = "send", !.text = text]

\* lines 185-193: no order -> error log and return; process_text raises ->
\* the outer except logs; blank text -> return; else go on to send
RenderStep(w, text) ==
    IF w.order = NoOrder
    THEN [w EXCEPT !.pc = "done", !.log = @ \cup {"error: no order"}]
    ELSE IF RaisesOnBuild(w.order)
    THEN [w EXCEPT !.pc = "done", !.log = @ \cup {"error: exception"}]
    ELSE IF strip(text) = <<>>
    THEN [w EXCEPT !.pc = "done", !.text = text]
    ELSE [w EXCEPT !.pc = "send", !.text = text]

WorkerRender(i) ==
    /\ workers[i].pc = "render"
    /\ \E now \in Nows :
         \E text \in (IF workers[i].order = NoOrder \/ RaisesOnBuild(workers[i].order)
                      THEN {None} ELSE Rendered(workers[i], now)) :
           workers' = [workers EXCEPT ![i] = RenderStep(@, text)]
    /\ UNCHANGED <<SETTINGS, file, lock, thr, nEvents, nOps, nRestarts, persisted>>

\* the send without the outer try: an exception of send_message ends the thread
SendStep_Uncaught(w, watermark, result) ==
    [w EXCEPT !.sends = @ + 1, !.watermark = watermark,
              !.pc = IF result = "raise" THEN "uncaught" ELSE "done"]

\* lines 195-209: the send_message call with watermark=SETTINGS.watermark
SendStep(w, watermark, result) ==
    [w EXCEPT !.sends = @ + 1, !.watermark = watermark, !.pc = "done",
              !.log = @ \cup {CASE result = "raise" -> "error: exception"
                                [] result = "falsy" -> "warning: not sent"
                                [] OTHER -> "info: sent"}]

WorkerSend(i, result) ==
    /\ workers[i].pc = "send"
    /\ workers' = [workers EXCEPT ![i] = SendStep(@, SETTINGS.watermark, result)]
    /\ UNCHANGED <<SETTINGS, file, lock, thr, nEvents, nOps, nRestarts, persisted>>

\* ------------------------------------------------------------------------
\* Telegram settings handlers, run by the thread TG (lines 295-348)
\* ------------------------------------------------------------------------
\* switch: call.data.split(":")[-1] selects the flag; save() follows in any case
Switched(param) ==
    IF param = "enabled" THEN [SETTINGS EXCEPT !.enabled = ~@]
    ELSE IF param = "watermark" THEN [SETTINGS EXCEPT !.watermark = ~@]
    ELSE SETTINGS

switch(param) ==
    /\ thr[TG].pc = "idle"
    /\ SETTINGS' = Switched(param)
    /\ thr' = [thr EXCEPT ![TG].pc = "save_slice"]
    /\ nOps' = nOps + 1
    /\ UNCHANGED <<file, lock, workers, nEvents, nRestarts, persisted>>

\* edit_text_finish: "-" clears the template, a message without text too
EditedText(text) ==
    IF text # None /\ text # <<>> /\ strip(text) = <<"-">> THEN <<>>
    ELSE Or(text, <<>>)

edit_text_finish(text) ==
    /\ thr[TG].pc = "idle"
    /\ SETTINGS' = [SETTINGS EXCEPT !.message_text = EditedText(text)]
    /\ thr' = [thr EXCEPT ![TG].pc = "save_slice"]
    /\ nOps' = nOps + 1
    /\ UNCHANGED <<file, lock, workers, nEvents, nRestarts, persisted>>

\* ------------------------------------------------------------------------
\* Steps of the running plugin, over the inputs a run draws from
\* ------------------------------------------------------------------------
HookNext(H, events, maxEvents) ==
    \/ nEvents < maxEvents /\ \E h \in H, event \in events : HookBegin(h, event)
    \/ \E h \in H : HookAcquire(h)
    \/ \E h \in H : HookCheck(h)
    \/ \E h \in H : HookAppend(h)
    \/ \E h \in H : HookRelease(h)
    \/ \E h \in H : HookStart(h)

SaveNext(T) ==
    \/ \E t \in T : SaveSlice(t)
    \/ \E t \in T : SaveStore(t)
    \/ \E t \in T : SaveOpen(t)
    \/ \E t \in T : SaveDump(t)
    \/ \E t \in T : SaveClose(t)

SettingsNext(texts) ==
    \/ nOps < MaxSettingsOps /\ \E param \in {"enabled", "watermark"} : switch(param)
    \/ nOps < MaxSettingsOps /\ \E text \in texts : edit_text_finish(text)

WorkerNext(outcomes) ==
    \/ \E i \in DOMAIN workers, outcome \in outcomes : WorkerGetOrder(i, outcome)
    \/ \E i \in DOMAIN workers : WorkerSleep(i)
    \/ \E i \in DOMAIN workers : WorkerRender(i)
    \/ \E i \in DOMAIN workers, result \in SendOutcomes : WorkerSend(i, result)

\* ------------------------------------------------------------------------
\* Spec: the dedup gate under concurrency. Two hook threads and the settings
\* thread interleave step by step; the workers they start run beside them.
\* ------------------------------------------------------------------------
\* events of the gate run: texts without an identifier or with identifier 1
GateEvents == {e \in MessageEvents : e.chat_name = None /\ e.order_ids # <<2>>}
GateOutcomes == {Raised, NoOrder, Order(<<"a">>, NoSubcategory)}

Next ==
    \/ HookNext(Hooks, GateEvents, MaxEvents)
    \/ SaveNext(Threads)
    \/ SettingsNext({T_dash})
    \/ WorkerNext(GateOutcomes)

Spec == Init /\ [][Next]_vars

\* ------------------------------------------------------------------------
\* SpecRestart: the gate as above, and the process may stop and start again.
\* Module import builds a fresh Settings object and loads the file; every
\* thread of the old process is gone (the workers are daemon threads).
\* ------------------------------------------------------------------------
Abandon(w) == IF w.pc = "done" THEN w ELSE [w EXCEPT !.pc = "abandoned"]

Restart ==
    /\ nRestarts < MaxRestarts
    /\ nRestarts' = nRestarts + 1
    /\ SETTINGS' = load(Defaults, file)
    /\ lock' = 0
    /\ thr' = [t \in Threads |-> IdleThread]
    /\ workers' = [i \in DOMAIN workers |-> Abandon(workers[i])]
    /\ UNCHANGED <<file, nEvents, nOps, persisted>>

NextRestart ==
    \/ HookNext(Hooks, GateEvents, MaxEvents)
    \/ SaveNext(Threads)
    \/ SettingsNext({T_dash})
    \/ WorkerNext(GateOutcomes)
    \/ Restart

SpecRestart == Init /\ [][NextRestart]_vars

\* ------------------------------------------------------------------------
\* SpecWorker: one hook thread, settings as loaded at start, every outcome of
\* get_order and send_message
\* ------------------------------------------------------------------------
T_var == <<"{", "a", "|", " ", "}">>

WorkerTexts == {DefaultText, T_title, T_var, T_space}

InitWorker ==
    \E text \in WorkerTexts :
        InitWith(JsonFile([Defaults EXCEPT !.enabled = TRUE, !.message_text = text]))

NextWorker ==
    \/ HookNext({1}, MessageEvents, MaxWorkerEvents)
    \/ SaveNext({1})
    \/ WorkerNext(GetOrderOutcomes)

SpecWorker == InitWorker /\ [][NextWorker]_vars

\* ------------------------------------------------------------------------
\* SpecWorkerFair: the worker of one order under fair scheduling. The events
\* name order 1 or no order, so one worker runs; a started thread is scheduled
\* again and again (weak fairness of its next step).
\* ------------------------------------------------------------------------
OneOrderEvents == {e \in MessageEvents : e.order_ids # <<2>>}

NextOneOrder ==
    \/ HookNext({1}, OneOrderEvents, MaxWorkerEvents)
    \/ SaveNext({1})
    \/ WorkerNext(GetOrderOutcomes)

WorkerStep(i) ==
    /\ i \in DOMAIN workers
    /\ \/ \E outcome \in GetOrderOutcomes : WorkerGetOrder(i, outcome)
       \/ WorkerSleep(i)
       \/ WorkerRender(i)
       \/ \E result \in SendOutcomes : WorkerSend(i, result)

SpecWorkerFair ==
    /\ InitWorker
    /\ [][NextOneOrder]_vars
    /\ \A i \in 1..MaxWorkerEvents : WF_vars(WorkerStep(i))

\* ------------------------------------------------------------------------
\* SpecRetention: one hook thread admits the identifiers 1, 2, 3, ... one
\* after the other, auto-reply on and the template cleared
\* ------------------------------------------------------------------------
NewOrderEvent(x) ==
    [type |-> "ORDER_PURCHASED", i_am_buyer |-> FALSE, order_ids |-> <<x>>,
     chat_name |-> None]

InitRetention ==
    InitWith(JsonFile([Defaults EXCEPT !.enabled = TRUE, !.message_text = <<>>]))

NextRetention ==
    \/ HookNext({1}, {NewOrderEvent(nEvents + 1)}, MaxInserts)
    \/ SaveNext({1})

SpecRetention == InitRetention /\ [][NextRetention]_vars

\* ------------------------------------------------------------------------
\* SpecEdit: one hook thread, the settings thread and the worker. The template
\* is edited and the flags are switched while an event is handled and while
\* its worker runs.
\* ------------------------------------------------------------------------
\* number of handler invocations (message_hook, switch, edit_text_finish) in a
\* run with template edits
MaxEditSteps == 2
\* number of settings-handler invocations in a run of ignored events
MaxEdits == 1

\* message.text of edit_text_finish: the sentinel that clears the template, and
\* a template that renders to the order's title
EditTexts == {T_dash, T_title}

\* get_order raises or returns an order without a title
EditOutcomes == {Raised, Order(None, NoSubcategory)}

\* the default template, or a whitespace-only one
InitEdit ==
    \E text \in {DefaultText, T_space} :
        InitWith(JsonFile([Defaults EXCEPT !.enabled = TRUE, !.message_text = text]))

EditNext(texts, maxOps) ==
    \/ nOps < maxOps /\ \E param \in {"enabled", "watermark"} : switch(param)
    \/ nOps < maxOps /\ \E text \in texts : edit_text_finish(text)

NextEdit ==
    \/ HookNext({1}, {NewOrderEvent(1)}, MaxEditSteps - nOps)
    \/ SaveNext({1, TG})
    \/ EditNext(EditTexts, MaxEditSteps - nEvents)
    \/ WorkerNext(EditOutcomes)

SpecEdit == InitEdit /\ [][NextEdit]_vars

\* ------------------------------------------------------------------------
\* SpecRender: the renderer on its own. A worker holds the template, the chat
\* name and the order get_order returned; it renders (line 190) and sends.
\* ------------------------------------------------------------------------
\* the keys of the mapping
Keys ==
    {K_date, K_date_text, K_time, K_full_time, K_username, K_order_id, K_order_link,
     K_order_title, K_order_desc, K_order_params, K_order_desc_or_params, K_buyer,
     K_seller, K_game, K_category, K_category_full, K_price, K_currency, K_amount}

\* a variant group as it is written in a template: "{o1|o2|...}"
RECURSIVE Joined(_)
Joined(opts) ==
    IF Len(opts) = 1 THEN opts[1] ELSE opts[1] \o <<"|">> \o Joined(Tail(opts))

GroupText(opts) == <<"{">> \o Joined(opts) \o <<"}">>

\* options of the groups: one character, two characters, nothing
Opts == {<<"a">>, <<"b", "c">>, <<>>}

\* groups of one, two and three options
OptionLists ==
    {<<o>> : o \in Opts} \cup {<<o1, o2>> : o1 \in Opts, o2 \in Opts}
        \cup {<<o1, o2, o3>> : o1 \in Opts \ {<<>>}, o2 \in Opts \ {<<>>},
                               o3 \in Opts \ {<<>>}}

\* two groups in one template, with text between them
PairLists == {<<o1, o2>> : o1 \in Opts \ {<<>>}, o2 \in Opts \ {<<>>}}

PairText(g1, g2) == GroupText(g1) \o <<"-">> \o GroupText(g2)

\* a value that looks like a variant group
T_brace == <<"{", "x", "|", "y", "}">>

\* a group followed by the $username placeholder
T_group_name == <<"{", "a", "|", "b", "}", " ">> \o K_username

\* templates without a group: plain text, an unknown "$w" token, a lone "$",
\* the beginning of a key, a key twice, a key inside other text
PlainTexts ==
    {<<"a", "b">>, <<"$", "w">>, <<"$">>, <<"$", "d", "a", "t">>,
     K_price \o <<" ">> \o K_price, <<"x">> \o K_order_id \o <<"y">>}

RenderTexts ==
    Keys \cup PlainTexts \cup {GroupText(g) : g \in OptionLists}
        \cup {PairText(g1, g2) : g1 \in PairLists, g2 \in PairLists}
        \cup {T_group_name}

SubCategory ==
    [kind |-> "SubCategory", name |-> <<"n">>, game |-> <<"g">>, fullname |-> <<"f">>]

RenderOrders ==
    {Order(<<"a">>, NoSubcategory), Order(T_brace, NoSubcategory), Order(<<"a">>, SubCategory)}

\* event.message.chat_name: none, one that looks like a group, one that is a key
RenderNames == {None, T_brace, K_price}

\* the state after message_hook admitted order 1 and get_order returned order
InitRender ==
    \E text \in RenderTexts, order \in RenderOrders, chat_name \in RenderNames :
        /\ file = JsonFile([Defaults EXCEPT !.enabled = TRUE, !.message_text = text,
                                            !.processed_orders = <<1>>])
        /\ SETTINGS = load(Defaults, file)
        /\ lock = 0
        /\ thr = [t \in Threads |-> IdleThread]
        /\ workers = <<GetOrderStep(NewWorker(1, text, chat_name), order)>>
        /\ nEvents = 1
        /\ nOps = 0
        /\ nRestarts = 0
        /\ persisted = Stored(file)

NextRender ==
    \/ \E i \in DOMAIN workers : WorkerRender(i)
    \/ \E i \in DOMAIN workers, result \in SendOutcomes : WorkerSend(i, result)

SpecRender == InitRender /\ [][NextRender]_vars

\* ------------------------------------------------------------------------
\* SpecRejected: only events that message_hook has to ignore arrive, while the
\* settings thread switches the flags and edits the template. message_hook
\* returns before line 158 on each of them, so none of its later steps occurs.
\* ------------------------------------------------------------------------
\* number of message_hook invocations in a run of ignored events
MaxRejected == 2

\* the events that arrive: any event while auto-reply is off; otherwise one of
\* another type, one sent as buyer, or one whose text has no order identifier
IgnoredEvents ==
    {e \in MessageEvents :
        \/ ~SETTINGS.enabled
        \/ e.type = "NON_SYSTEM"
        \/ e.i_am_buyer
        \/ e.order_ids = <<>>}

\* no file, or a file with auto-reply off or on and order 2 answered earlier
InitRejected ==
    \E f \in {NoFile} \cup {JsonFile([Defaults EXCEPT !.enabled = b,
                                                       !.processed_orders = <<2>>]) :
                                b \in BOOLEAN} :
        InitWith(f)

NextRejected ==
    \/ nEvents < MaxRejected /\ \E event \in IgnoredEvents : HookBegin(1, event)
    \/ SaveNext({TG})
    \/ EditNext({T_dash}, MaxEdits)

SpecRejected == InitRejected /\ [][NextRejected]_vars

\* ------------------------------------------------------------------------
\* Observations used by the properties
\* ------------------------------------------------------------------------
\* positions of message_hook after the "not in processed_orders" check passed
Passed ==
    {"append", "save_slice", "save_store", "save_open", "save_dump", "save_close",
     "saved", "read_text"}

WorkersFor(x) == {i \in DOMAIN workers : workers[i].order_id = x}

\* send_message calls made by the workers ws for identifier x
RECURSIVE SendCallsIn(_, _)
SendCallsIn(ws, x) ==
    IF ws = <<>> THEN 0
    ELSE (IF Head(ws).order_id = x THEN Head(ws).sends ELSE 0) + SendCallsIn(Tail(ws), x)

SendCalls(x) == SendCallsIn(workers, x)

\* the worker gave up after the loop: "no order data after 3 attempts"
GaveUp(w) == "error: no order" \in w.log

\* get_order returned an order that process_text can render
Fetched(w) == w.order # NoOrder /\ ~RaisesOnBuild(w.order)

\* the mapping line 136 builds for worker w
Replacements(w, now) ==
    _build_replacements(Username(w.chat_name, w.order), Str(w.order_id), w.order, now)

\* the worker is about to call process_text for an order that renders
AtRender(w) == w.pc = "render" /\ Fetched(w)

\* process_text has returned w.text
HasRendered(w) == w.pc \in {"send", "done"} /\ Fetched(w) /\ w.text # None

\* ------------------------------------------------------------------------
\* Properties of the dedup gate
\* ------------------------------------------------------------------------
\* C1: of two message_hook invocations for the same identifier that run at the
\* same time only one passes the "not in processed_orders" check, and at most
\* one worker is started for an identifier.
C1_OneAdmission ==
    /\ \A h1, h2 \in Hooks :
         (h1 # h2 /\ thr[h1].pc \in Passed /\ thr[h2].pc \in Passed)
            => thr[h1].order_id # thr[h2].order_id
    /\ \A x \in OrderIds : Cardinality(WorkersFor(x)) <= 1

\* C2: the processed-order set only grows: an identifier in
\* SETTINGS.processed_orders (within the last 500) is still in it after every
\* step of message_hook, switch and edit_text_finish.
C2_SetOnlyGrows ==
    [][\A x \in Range(LastN(SETTINGS.processed_orders, KeepLast)) :
          x \in Range(SETTINGS'.processed_orders)]_vars

\* C3: at most one send_message call is ever made for an order identifier.
C3_AtMostOneSend == \A x \in OrderIds : SendCalls(x) <= 1

\* C4: whenever get_order or send_message has been called for an identifier,
\* a settings file containing it was written before.
C4_PersistedBeforeNetwork ==
    \A i \in DOMAIN workers :
        (workers[i].gets > 0 \/ workers[i].sends > 0) => workers[i].order_id \in persisted

\* C9: when the retrieval failed on all attempts for an identifier, nothing was
\* sent for it, it stays in the processed set, and no later worker calls
\* get_order or send_message for it.
C9_FailureIsFinal ==
    \A i \in DOMAIN workers :
        GaveUp(workers[i]) =>
            /\ workers[i].sends = 0
            /\ workers[i].order_id \in Range(SETTINGS.processed_orders)
            /\ \A j \in WorkersFor(workers[i].order_id) :
                 j > i => workers[j].gets = 0 /\ workers[j].sends = 0

\* ------------------------------------------------------------------------
\* Retention of the processed-order list
\* ------------------------------------------------------------------------
\* C5: after n admissions of distinct identifiers, each saved, the persisted
\* list has at most 500 entries and is the last min(n, 500) identifiers in
\* admission order.
C5_Retention ==
    thr[1].pc = "idle" =>
        LET n == nEvents
            k == IF n < KeepLast THEN n ELSE KeepLast
        IN  /\ file.kind = "json"
            /\ Len(file.data.processed_orders) <= KeepLast
            /\ file.data.processed_orders = [i \in 1..k |-> n - k + i]

C5_Witness ==
    /\ thr[1].pc = "idle"
    /\ nEvents = MaxInserts
    /\ file.kind = "json"
    /\ Len(file.data.processed_orders) = KeepLast
    /\ file.data.processed_orders[1] = MaxInserts - KeepLast + 1
    /\ file.data.processed_orders[KeepLast] = MaxInserts

\* ------------------------------------------------------------------------
\* Properties of the worker
\* ------------------------------------------------------------------------
\* the text the default template renders to for worker w: the chat name (the
\* buyer's name when the chat has none), the identifier, the order's title,
\* its price and currency
ExpectedDefault(w) ==
    <<"H", "i", " ">> \o (IF w.chat_name = None THEN w.order.buyer_username ELSE w.chat_name)
        \o <<"\n", "#">> \o Str(w.order_id) \o <<"\n">>
        \o (IF w.order.short_description = None THEN <<>> ELSE w.order.short_description)
        \o <<"\n">> \o w.order.sum \o <<" ">> \o w.order.currency

\* the texts the templates of the worker run render to
ExpectedTexts(w) ==
    IF w.raw_text = DefaultText THEN {ExpectedDefault(w)}
    ELSE IF w.raw_text = T_title
    THEN {IF w.order.short_description = None THEN <<>> ELSE w.order.short_description}
    ELSE {<<"a">>, <<" ">>}

SentRendered(w) ==
    /\ w.pc = "done"
    /\ Fetched(w)
    /\ w.text \in ExpectedTexts(w)
    /\ w.sends = (IF strip(w.text) = <<>> THEN 0 ELSE 1)

C7_BoundedFetch ==
    [][\A i \in DOMAIN workers :
          /\ workers'[i].gets <= MaxAttempts
          /\ workers[i].order # NoOrder => workers'[i].gets = workers[i].gets]_vars

C7_Witness ==
    \E i \in DOMAIN workers :
        /\ workers[i].pc = "done"
        /\ workers[i].gets = MaxAttempts
        /\ workers[i].order # NoOrder
        /\ workers[i].sleeps > 0

\* C8: a worker that gave up made exactly 3 get_order calls separated by
\* exactly two delays, and no send_message call.
C8_TwoDelays ==
    \A i \in DOMAIN workers :
        GaveUp(workers[i]) =>
            /\ workers[i].gets = MaxAttempts
            /\ workers[i].sleeps = MaxAttempts - 1
            /\ workers[i].sends = 0

\* C10: every started worker ends, with every exception caught, after at most
\* 3 get_order calls and at most one send_message call.
C10_WorkerEnds ==
    \A i \in 1..MaxWorkerEvents :
        /\ (i \in DOMAIN workers) ~> (i \in DOMAIN workers /\ workers[i].pc = "done")
        /\ [](i \in DOMAIN workers =>
                 workers[i].gets <= MaxAttempts /\ workers[i].sends <= 1)

C10_Witness ==
    \E i \in DOMAIN workers :
        /\ workers[i].pc = "done"
        /\ workers[i].gets = MaxAttempts
        /\ workers[i].sends = 1
        /\ "error: exception" \in workers[i].log

\* ------------------------------------------------------------------------
\* Properties of the template as message_hook and the worker read it
\* ------------------------------------------------------------------------
\* C11: a message_hook invocation that reads an empty or whitespace-only
\* template (line 164) starts no worker, a worker is only ever started with a
\* template that is not blank, and a worker makes a send_message call only
\* with a rendered text that is not blank.
C11_NoBlankSend ==
    [][/\ \A h \in Hooks :
            (thr[h].pc = "read_text" /\ thr'[h].pc = "idle"
                /\ strip(SETTINGS.message_text) = <<>>) => workers' = workers
       /\ Len(workers') > Len(workers) => strip(SETTINGS.message_text) # <<>>
       /\ \A i \in DOMAIN workers :
            workers'[i].sends > workers[i].sends =>
                workers[i].text # None /\ strip(workers[i].text) # <<>>]_vars

\* the event was admitted after "-" cleared the template: no worker was started
C11_Witness ==
    /\ nOps > 0
    /\ SETTINGS.message_text = <<>>
    /\ nEvents > 0
    /\ thr[1].pc = "idle"
    /\ 1 \in Range(SETTINGS.processed_orders)
    /\ workers = <<>>

\* ------------------------------------------------------------------------
\* Properties of the renderer
\* ------------------------------------------------------------------------
\* key short occurs inside key long, at its beginning or further on
OccursIn(short, long) == \E p \in 1..Len(long) : StartsAt(long, p, short)

\* C12: for every two keys of the mapping of which one occurs inside the
\* other, the template that is the longer key renders to the longer key's
\* value in full.
C12_PrefixSafe ==
    \A i \in DOMAIN workers, now \in Nows :
        HasRendered(workers[i]) =>
            \A reps \in {Replacements(workers[i], now)} :
                \A j, k \in DOMAIN reps :
                    (j # k /\ OccursIn(reps[j][1], reps[k][1])
                        /\ workers[i].raw_text = reps[k][1])
                    => workers[i].text = reps[k][2]

Substituted(s, reps) ==
    LET Match(i) == {k \in DOMAIN reps : StartsAt(s, i, reps[k][1])}
        Longest(i) ==
            CHOOSE k \in Match(i) : \A m \in Match(i) : Len(reps[m][1]) <= Len(reps[k][1])
        rest[i \in 1..(Len(s) + 1)] ==
            IF i > Len(s) THEN <<>>
            ELSE IF Match(i) = {} THEN <<s[i]>> \o rest[i + 1]
            ELSE reps[Longest(i)][2] \o rest[i + Len(reps[Longest(i)][1])]
    IN  rest[1]

\* C14: a template without a variant group renders to the template with every
\* occurrence of every key replaced by that key's value and all other text,
\* unknown "$word" tokens included, unchanged.
C14_ExactSubstitution ==
    \A i \in DOMAIN workers, now \in Nows :
        (HasRendered(workers[i]) /\ workers[i].raw_text \in Keys \cup PlainTexts)
            => workers[i].text = Substituted(workers[i].raw_text, Replacements(workers[i], now))

\* C18: a brace group inside a substituted value is in the rendered text as
\* it is: the template "$order_title" renders to the order's title, "{x|y}"
\* included; with the chat name "{x|y}" the template "$username" renders to
\* "{x|y}", and "{a|b} $username" to "a {x|y}" or "b {x|y}".
C18_ValuesVerbatim ==
    \A i \in DOMAIN workers :
        HasRendered(workers[i]) =>
            /\ workers[i].raw_text = K_order_title =>
                  workers[i].text = workers[i].order.short_description
            /\ (workers[i].raw_text = K_username /\ workers[i].chat_name = T_brace) =>
                  workers[i].text = T_brace
            /\ (workers[i].raw_text = T_group_name /\ workers[i].chat_name = T_brace) =>
                  workers[i].text \in {<<"a", " ">> \o T_brace, <<"b", " ">> \o T_brace}

\* "{a|b} $username" was rendered for the chat name "{x|y}" and sent
C18_Witness ==
    \E i \in DOMAIN workers :
        /\ workers[i].raw_text = T_group_name
        /\ workers[i].chat_name = T_brace
        /\ workers[i].text = <<"b", " ", "{", "x", "|", "y", "}">>
        /\ workers[i].sends = 1

\* ------------------------------------------------------------------------
\* Orders marked processed without a reply
\* ------------------------------------------------------------------------
\* x is in the processed set, no worker was started for it and no message_hook
\* invocation for it is past the "not in processed_orders" check
Unanswered(x) ==
    /\ x \in Range(SETTINGS.processed_orders)
    /\ WorkersFor(x) = {}
    /\ \A h \in Hooks : thr[h].order_id = x => thr[h].pc \notin Passed

\* C15: when message_hook returns at the blank-template check, the identifier
\* is in the processed set and in the settings file; and an identifier that is
\* marked processed without a worker stays so: it is never admitted again and
\* never answered.
C15_MarkedStaysUnanswered ==
    [][/\ \A h \in Hooks :
            (thr[h].pc = "read_text" /\ thr'[h].pc = "idle" /\ workers' = workers)
                => /\ thr[h].order_id \in Range(SETTINGS.processed_orders)
                   /\ thr[h].order_id \in Stored(file)
       /\ \A x \in OrderIds : Unanswered(x) => Unanswered(x)']_vars

\* ------------------------------------------------------------------------
\* Ignored events
\* ------------------------------------------------------------------------
\* C16: a message_hook invocation on an event that arrives while auto-reply is
\* off, or that is not of type ORDER_PURCHASED, or was sent as buyer, or has no
\* order identifier, leaves the settings object, the settings file and the lock
\* as they are, is not past line 156 afterwards and starts no worker; no worker
\* exists, so no get_order or send_message call is made.
C16_RejectedIsNoOp ==
    [][nEvents' # nEvents =>
          /\ SETTINGS' = SETTINGS
          /\ file' = file
          /\ persisted' = persisted
          /\ lock' = lock
          /\ thr'[1] = IdleThread
          /\ workers' = <<>>]_vars

\* events were ignored while auto-reply was on all the time
C16_Witness ==
    /\ nEvents = MaxRejected
    /\ nOps = 0
    /\ SETTINGS.enabled
    /\ SETTINGS.processed_orders = <<2>>
    /\ workers = <<>>

\* ------------------------------------------------------------------------
\* Settings read by the worker
\* ------------------------------------------------------------------------
\* C17: a worker is started with the template as SETTINGS.message_text is when
\* message_hook reads it, keeps that template whatever edit_text_finish does
\* afterwards, and renders its text from it; the watermark flag of its
\* send_message call is SETTINGS.watermark as it is at the call.
C17_TemplateAtAdmission ==
    [][/\ Len(workers') > Len(workers) =>
            workers'[Len(workers')].raw_text = SETTINGS.message_text
       /\ \A i \in DOMAIN workers :
            /\ workers'[i].raw_text = workers[i].raw_text
            /\ (Fetched(workers[i]) /\ workers'[i].text # workers[i].text) =>
                  \E now \in Nows :
                      workers'[i].text \in
                          process_text(workers[i].raw_text,
                                       Username(workers[i].chat_name, workers[i].order),
                                       Str(workers[i].order_id), workers[i].order, now)
            /\ workers'[i].sends > workers[i].sends =>
                  workers'[i].watermark = SETTINGS.watermark]_vars

\* the template was edited after the event was admitted with the default
\* template and before its worker renders
C17_Witness ==
    \E i \in DOMAIN workers :
        /\ AtRender(workers[i])
        /\ workers[i].raw_text = DefaultText
        /\ SETTINGS.message_text = K_order_title

====
